---- MODULE Spec2Model ----
(***************************************************************************)
(* Model of velox/functions/prestosql/json/SIMDJsonExtractor.h:            *)
(* simdJsonExtract (path compilation through the extractor cache, lazy     *)
(* document parse, root-only shortcut, token traversal with wildcard       *)
(* fan-out) as a state machine over one call, and the extractor cache      *)
(* over a sequence of calls.                                               *)
(***************************************************************************)
EXTENDS Integers, Sequences, FiniteSets, TLC

VARIABLES
  json,            \* the document handed to simdJsonExtract
  path,            \* the path string handed to simdJsonExtract (characters)
  consThrowAt,     \* the consumer raises during its n-th invocation (0: never)
  consThrowKind,   \* what the consumer raises: "simdjson_error" or "other"
  extractorCache,  \* getInstance's cache: entries in order of last use
  recency,         \* every path compiled so far, in order of last use
  requests,        \* counters of cache requests (hit, miss, fail)
  tokens_,         \* SIMDJsonExtractor::tokens_ of the extractor in use
  pc,              \* position inside simdJsonExtract
  stack,           \* activation records of SIMDJsonExtractor::extract
  calls,           \* the consumer invocations made so far, in order
  cursor,          \* position of the document cursor (last node touched)
  outcome,         \* what the call gave its caller
  raised,          \* who raised: "none", "path", "decode", "consumer"
  parsed,          \* extractor.parse has been called
  entered,         \* SIMDJsonExtractor::extract has been entered
  steps            \* steps taken by the call so far

vars ==
  << json, path, consThrowAt, consThrowKind, extractorCache, recency, requests,
     tokens_, pc, stack, calls, cursor, outcome, raised, parsed, entered, steps >>

(***************************************************************************)
(* Bounds of the model.                                                    *)
(***************************************************************************)
\* longest token list of a generated path
MaxTokens == 3
\* the consumer may raise during any of its first MaxThrowAt invocations
MaxThrowAt == 2
\* cache requests that hit, per behaviour of the cache specification
MaxHits == 1
\* cache requests with a malformed path, per behaviour
MaxFails == 1
\* distinct valid paths beyond the cache capacity
ExtraPaths == 2

\* faulty variant: a capacity check that is off by one
kMaxCacheSize_PlusOne == 32 + 1

\* Max number of extractors cached in extractorCache.
kMaxCacheSize == 32

(***************************************************************************)
(* Small helpers.                                                          *)
(***************************************************************************)
Last(s) == s[Len(s)]

Front(s) == SubSeq(s, 1, Len(s) - 1)

Range(s) == { s[i] : i \in 1..Len(s) }

Max(S) == CHOOSE m \in S : \A n \in S : n <= m

\* all sequences over S of length at most n
RECURSIVE SeqsUpTo(_, _)
SeqsUpTo(S, n) ==
  IF n = 0 THEN { <<>> }
  ELSE LET shorter == SeqsUpTo(S, n - 1)
       IN shorter \cup { Append(s, x) : s \in { t \in shorter : Len(t) = n - 1 }, x \in S }

(***************************************************************************)
(* Path strings and their tokenization.  A path is a sequence of           *)
(* one-character strings; a token is the sequence of characters of a       *)
(* field name, of an array subscript, or the wildcard.                     *)
(***************************************************************************)
Digits == << "0", "1", "2", "3", "4", "5", "6", "7", "8", "9" >>

IsDigit(c) == c \in Range(Digits)

DigitValue(c) == (CHOOSE i \in 1..10 : Digits[i] = c) - 1

Separators == { ".", "[", "]" }

kWildcard == << "*" >>

\* first index at or after i holding a separator or bracket, or Len + 1
RECURSIVE RunEnd(_, _)
RunEnd(p, i) ==
  IF i > Len(p) \/ p[i] \in Separators THEN i ELSE RunEnd(p, i + 1)

\* first index at or after i holding "]", or Len + 1
RECURSIVE BracketEnd(_, _)
BracketEnd(p, i) ==
  IF i > Len(p) \/ p[i] = "]" THEN i ELSE BracketEnd(p, i + 1)

IsSubscript(t) ==
  t = kWildcard \/ (Len(t) > 0 /\ \A i \in 1..Len(t) : IsDigit(t[i]))

\* JsonPathTokenizer: the tokens of the segments of p from index i on
RECURSIVE TokenizeFrom(_, _)
TokenizeFrom(p, i) ==
  IF i > Len(p) THEN [ok |-> TRUE, tokens |-> <<>>]
  ELSE IF p[i] = "."
    THEN LET e == RunEnd(p, i + 1)
             name == SubSeq(p, i + 1, e - 1)
             rest == TokenizeFrom(p, e)
         IN IF name = <<>> \/ ~rest.ok
              THEN [ok |-> FALSE, tokens |-> <<>>]
              ELSE [ok |-> TRUE, tokens |-> <<name>> \o rest.tokens]
  ELSE IF p[i] = "["
    THEN LET e == BracketEnd(p, i + 1)
             sub == SubSeq(p, i + 1, e - 1)
         IN IF e > Len(p) \/ ~IsSubscript(sub)
              THEN [ok |-> FALSE, tokens |-> <<>>]
              ELSE LET rest == TokenizeFrom(p, e + 1)
                   IN IF ~rest.ok
                        THEN [ok |-> FALSE, tokens |-> <<>>]
                        ELSE [ok |-> TRUE, tokens |-> <<sub>> \o rest.tokens]
  ELSE [ok |-> FALSE, tokens |-> <<>>]

\* SIMDJsonExtractor::tokenize: false on a malformed path, else fills tokens_
tokenize(p) ==
  IF p = <<>> \/ p[1] # "$"
    THEN [ok |-> FALSE, tokens |-> <<>>]
    ELSE TokenizeFrom(p, 2)

\* the path string of a token list
RECURSIVE RenderTokens(_)
RenderTokens(toks) ==
  IF toks = <<>> THEN <<>>
  ELSE (IF IsSubscript(Head(toks))
          THEN <<"[">> \o Head(toks) \o <<"]">>
          ELSE <<".">> \o Head(toks))
       \o RenderTokens(Tail(toks))

RenderPath(toks) == <<"$">> \o RenderTokens(toks)

\* folly::tryTo<int32_t>(index) of a token made of digits
RECURSIVE TokenToInt(_)
TokenToInt(t) ==
  IF t = <<>> THEN 0 ELSE 10 * TokenToInt(Front(t)) + DigitValue(Last(t))

IsNumericToken(t) == Len(t) > 0 /\ \A i \in 1..Len(t) : IsDigit(t[i])

\* decimal digits of a natural number
RECURSIVE NatToToken(_)
NatToToken(n) ==
  IF n < 10 THEN << Digits[n + 1] >>
  ELSE Append(NatToToken(n \div 10), Digits[(n % 10) + 1])

(***************************************************************************)
(* Documents.  A node is a record; a position is the sequence of child     *)
(* indexes leading from the root to a node, and document order is the      *)
(* pre-order of positions.  "bad" is a malformed value; trunc marks a      *)
(* container whose text breaks off after its last listed child.            *)
(***************************************************************************)
Scalar(v) == [kind |-> "scalar", v |-> v, keys |-> <<>>, kids |-> <<>>, trunc |-> FALSE]

Bad == [kind |-> "bad", v |-> 0, keys |-> <<>>, kids |-> <<>>, trunc |-> FALSE]

Arr(kids) == [kind |-> "array", v |-> 0, keys |-> <<>>, kids |-> kids, trunc |-> FALSE]

Obj(keys, kids) == [kind |-> "object", v |-> 0, keys |-> keys, kids |-> kids, trunc |-> FALSE]

Trunc(n) == [n EXCEPT !.trunc = TRUE]

Doc(root) == [stage1ok |-> TRUE, root |-> root]

Unparsable(root) == [stage1ok |-> FALSE, root |-> root]

RECURSIVE NodeAt(_, _)
NodeAt(n, pos) ==
  IF pos = <<>> THEN n ELSE NodeAt(n.kids[Head(pos)], Tail(pos))

\* p is at or before q in document order
RECURSIVE DocLeq(_, _)
DocLeq(p, q) ==
  IF p = <<>> THEN TRUE
  ELSE IF q = <<>> THEN FALSE
  ELSE IF Head(p) # Head(q) THEN Head(p) < Head(q)
  ELSE DocLeq(Tail(p), Tail(q))

IsPrefix(p, q) == Len(p) <= Len(q) /\ SubSeq(q, 1, Len(p)) = p

RECURSIVE WellFormed(_)
WellFormed(n) ==
  /\ n.kind # "bad"
  /\ ~n.trunc
  /\ \A i \in 1..Len(n.kids) : WellFormed(n.kids[i])

\* the document with its malformed parts put right
RECURSIVE Repair(_)
Repair(n) ==
  IF n.kind = "bad" THEN Scalar(0)
  ELSE [n EXCEPT !.trunc = FALSE,
                 !.kids = [i \in 1..Len(n.kids) |-> Repair(n.kids[i])]]

(***************************************************************************)
(* The inputs the model draws from.                                        *)
(***************************************************************************)
TokenAlphabet == { <<"a">>, <<"x">>, <<"0">>, <<"1">>, kWildcard }

ValidPaths == { RenderPath(t) : t \in SeqsUpTo(TokenAlphabet, MaxTokens) }

MalformedPaths ==
  { <<>>,
    << "a" >>,
    << "$", "[" >>,
    << "$", "." >>,
    << "$", ".", ".", "a" >>,
    << "$", "[", "a", "]" >>,
    << "$", ".", "a", "[", "0" >>,
    << "$", "]" >> }

Paths == ValidPaths \cup MalformedPaths

ka == << "a" >>

kx == << "x" >>

ky == << "y" >>

ValidDocs ==
  { Doc(Scalar(7)),
    Doc(Obj(<<>>, <<>>)),
    Doc(Arr(<<>>)),
    Doc(Obj(<<ka>>, << Obj(<<kx>>, <<Scalar(7)>>) >>)),
    Doc(Obj(<<ka>>, << Arr(<<Scalar(1), Scalar(2), Scalar(3)>>) >>)),
    Doc(Obj(<<ka>>, << Arr(<< Obj(<<kx>>, <<Scalar(1)>>),
                              Obj(<<ky>>, <<Scalar(2)>>),
                              Obj(<<kx>>, <<Scalar(3)>>) >>) >>)),
    Doc(Arr(<< Arr(<<Scalar(1), Scalar(2)>>), Arr(<<Scalar(3)>>) >>)),
    Doc(Arr(<< Obj(<<ka>>, <<Scalar(1)>>), Arr(<<Scalar(2)>>), Scalar(3) >>)),
    Doc(Obj(<<ky, kx>>, << Scalar(1), Arr(<<Scalar(2), Arr(<<Scalar(4)>>)>>) >>)) }

MalformedDocs ==
  { Unparsable(Obj(<<ka>>, <<Scalar(1)>>)),
    Unparsable(Scalar(7)),
    Doc(Bad),
    Doc(Arr(<< Scalar(1), Scalar(2), Bad >>)),
    Doc(Arr(<< Obj(<<ka>>, <<Scalar(1)>>), Bad, Obj(<<ka>>, <<Scalar(3)>>) >>)),
    Doc(Obj(<<ka, kx>>, << Arr(<<Scalar(1), Scalar(2)>>), Bad >>)),
    Doc(Obj(<<ka>>, << Trunc(Arr(<<Scalar(1), Scalar(2)>>)) >>)),
    Doc(Arr(<< Arr(<<Scalar(1)>>), Trunc(Obj(<<ka>>, <<Scalar(2)>>)) >>)) }

Docs == ValidDocs \cup MalformedDocs

IsMalformed(d) == ~d.stage1ok \/ ~WellFormed(d.root)

ThrowKinds == { "simdjson_error", "other" }

(***************************************************************************)
(* Reading the document through the parser.                                *)
(***************************************************************************)
\* parser.iterate: the first pass rejects the text, or hands out a document
parse(d) == d.stage1ok

\* document::get_value: only a document whose root is a container converts
get_value_ok(d) == d.root.kind \in { "object", "array" }

\* value::type: fails on a malformed value
type_ok(n) == n.kind # "bad"

\* extractObject: the first field named key, reading the fields in order
extractObject(n, key) ==
  LET hits == { i \in 1..Len(n.keys) : n.keys[i] = key }
  IN IF hits # {}
       THEN LET k == CHOOSE i \in hits : \A j \in hits : i <= j
            IN [found |-> k, err |-> FALSE, scanned |-> k]
       ELSE [found |-> 0, err |-> n.trunc, scanned |-> Len(n.kids)]

\* extractArray: the element at a numeric index, reading the elements in order
extractArray(n, index) ==
  IF ~IsNumericToken(index)
    THEN [found |-> 0, err |-> FALSE, scanned |-> 0]
    ELSE LET i == TokenToInt(index)
         IN IF i < Len(n.kids)
              THEN [found |-> i + 1, err |-> FALSE, scanned |-> i + 1]
              ELSE [found |-> 0, err |-> n.trunc, scanned |-> Len(n.kids)]

(***************************************************************************)
(* The extractor cache (SIMDJsonExtractor::getInstance).                   *)
(***************************************************************************)
CacheIndex(cache, p) ==
  IF \E i \in 1..Len(cache) : cache[i].path = p
    THEN CHOOSE i \in 1..Len(cache) : cache[i].path = p
    ELSE 0

Without(s, i) == SubSeq(s, 1, i - 1) \o SubSeq(s, i + 1, Len(s))

\* the cache after a successful getInstance(p) giving extractor tokens toks
CacheAfter(cache, p, toks) ==
  LET i == CacheIndex(cache, p)
  IN IF i # 0
       THEN Append(Without(cache, i), cache[i])
       ELSE IF Len(cache) >= kMaxCacheSize
         THEN Append(Tail(cache), [path |-> p, tokens |-> toks])
         ELSE Append(cache, [path |-> p, tokens |-> toks])

\* the use order after a successful getInstance(p)
RecencyAfter(r, p) ==
  Append(SelectSeq(r, LAMBDA q : q # p), p)

\* getInstance(p): the tokens of the extractor, or the constructor's failure
getInstance(cache, p) ==
  LET i == CacheIndex(cache, p)
  IN IF i # 0
       THEN [ok |-> TRUE, hit |-> TRUE, tokens |-> cache[i].tokens]
       ELSE LET t == tokenize(p)
            IN [ok |-> t.ok, hit |-> FALSE, tokens |-> t.tokens]

(***************************************************************************)
(* simdJsonExtract, one call.                                              *)
(***************************************************************************)
inputs == << json, path, consThrowAt, consThrowKind >>

Frame(input, tokenIndex) ==
  [input |-> input, tokenIndex |-> tokenIndex, inLoop |-> FALSE, child |-> 0]

\* faulty variant: the trivial path is not recognised
isRootOnlyPath_Never(tokens) == FALSE

\* Returns true if this extractor was initialized with the trivial path "$".
isRootOnlyPath(tokens) == tokens = <<>>

\* faulty variant: a caught simdjson_error falls through to return true
CatchOutcome_Swallow(kind) == IF kind = "simdjson_error" THEN "true" ELSE kind

\* faulty variant: catch (...) instead of catch (simdjson_error)
CatchOutcome_All(kind) == "false"

\* the catch clause of simdJsonExtract: a simdjson_error becomes false,
\* anything else leaves the function as the exception it is
CatchOutcome(kind) == IF kind = "simdjson_error" THEN "false" ELSE kind

\* faulty variant: every wildcard is treated as the last token
IsLastToken_Always(tokenIndex, tokens) == TRUE

\* tokenIndex == tokens_.size() - 1
IsLastToken(tokenIndex, tokens) == tokenIndex = Len(tokens) - 1

\* faulty variant: the recursive call restarts at the same token
NextTokenIndex_Same(tokenIndex) == tokenIndex

\* the token index handed to the recursive call
NextTokenIndex(tokenIndex) == tokenIndex + 1

\* faulty variant: the elements are visited last to first
ChildAt_Reversed(k, n) == n + 1 - k

\* the k-th child the range-for over an array of n elements yields
ChildAt(k, n) == k

\* the consumer raises during the invocation about to be made
ConsumerThrows == consThrowAt = Len(calls) + 1

\* an exception leaves extract and reaches the catch clause or the caller
Raise(kind, who) ==
  /\ pc' = "done"
  /\ outcome' = CatchOutcome(kind)
  /\ raised' = who
  /\ stack' = <<>>

\* extract returns to its caller
Pop ==
  /\ stack' = Front(stack)
  /\ pc' = IF Len(stack) = 1 THEN "return" ELSE "extract"
  /\ UNCHANGED << outcome, raised >>

\* what getInstance(p) does to the cache
GetInstanceEffect(p) ==
  LET g == getInstance(extractorCache, p)
  IN IF g.ok
       THEN /\ extractorCache' = CacheAfter(extractorCache, p, g.tokens)
            /\ recency' = RecencyAfter(recency, p)
            /\ requests' = IF g.hit
                             THEN [requests EXCEPT !.hit = @ + 1]
                             ELSE [requests EXCEPT !.miss = @ + 1]
            /\ tokens_' = g.tokens
       ELSE /\ requests' = [requests EXCEPT !.fail = @ + 1]
            /\ UNCHANGED << extractorCache, recency, tokens_ >>

Init ==
  /\ json \in Docs
  /\ path \in Paths
  /\ consThrowAt \in 0..MaxThrowAt
  /\ consThrowKind \in (IF consThrowAt = 0 THEN { "simdjson_error" } ELSE ThrowKinds)
  /\ extractorCache = <<>>
  /\ recency = <<>>
  /\ requests = [hit |-> 0, miss |-> 0, fail |-> 0]
  /\ tokens_ = <<>>
  /\ pc = "start"
  /\ stack = <<>>
  /\ calls = <<>>
  /\ cursor = <<>>
  /\ outcome = "none"
  /\ raised = "none"
  /\ parsed = FALSE
  /\ entered = FALSE
  /\ steps = 0

\* auto& extractor = detail::SIMDJsonExtractor::getInstance(path);
GetInstance ==
  /\ pc = "start"
  /\ GetInstanceEffect(path)
  /\ IF getInstance(extractorCache, path).ok
       THEN /\ pc' = "parse"
            /\ UNCHANGED << outcome, raised, stack >>
       ELSE Raise("VeloxUserError", "path")
  /\ steps' = steps + 1
  /\ UNCHANGED << inputs, calls, cursor, parsed, entered >>

\* simdjson::ondemand::document jsonDoc = extractor.parse(paddedJson);
Parse ==
  /\ pc = "parse"
  /\ parsed' = TRUE
  /\ IF parse(json)
       THEN /\ pc' = "dispatch"
            /\ UNCHANGED << outcome, raised, stack >>
       ELSE Raise("simdjson_error", "decode")
  /\ steps' = steps + 1
  /\ UNCHANGED << inputs, extractorCache, recency, requests, tokens_, calls,
                  cursor, entered >>

\* if (extractor.isRootOnlyPath()) consumer(jsonDoc);
RootOnly ==
  /\ pc = "dispatch"
  /\ isRootOnlyPath(tokens_)
  /\ calls' = Append(calls, [arg |-> "document", pos |-> <<>>])
  /\ IF ConsumerThrows
       THEN Raise(consThrowKind, "consumer")
       ELSE /\ pc' = "return"
            /\ UNCHANGED << outcome, raised, stack >>
  /\ steps' = steps + 1
  /\ UNCHANGED << inputs, extractorCache, recency, requests, tokens_, cursor,
                  parsed, entered >>

\* auto value = jsonDoc.get_value().value(); extractor.extract(value, consumer);
GetValue ==
  /\ pc = "dispatch"
  /\ ~isRootOnlyPath(tokens_)
  /\ IF get_value_ok(json)
       THEN /\ stack' = << Frame(<<>>, 0) >>
            /\ entered' = TRUE
            /\ pc' = "extract"
            /\ UNCHANGED << outcome, raised >>
       ELSE /\ Raise("simdjson_error", "decode")
            /\ UNCHANGED entered
  /\ steps' = steps + 1
  /\ UNCHANGED << inputs, extractorCache, recency, requests, tokens_, calls,
                  cursor, parsed >>

\* one iteration of the token loop of extract, other than a wildcard's
ExtractStep ==
  /\ pc = "extract"
  /\ stack # <<>>
  /\ ~Last(stack).inLoop
  /\ Last(stack).tokenIndex < Len(tokens_)
  /\ LET f == Last(stack)
         n == NodeAt(json.root, f.input)
         token == tokens_[f.tokenIndex + 1]
         r == IF n.kind = "object" THEN extractObject(n, token)
              ELSE IF n.kind = "array" THEN extractArray(n, token)
              ELSE [found |-> 0, err |-> FALSE, scanned |-> 0]
     IN IF ~type_ok(n)
          THEN /\ Raise("simdjson_error", "decode")
               /\ UNCHANGED cursor
          ELSE IF n.kind = "array" /\ token = kWildcard
            THEN /\ stack' = [stack EXCEPT ![Len(stack)].inLoop = TRUE]
                 /\ UNCHANGED << pc, outcome, raised, cursor >>
          ELSE /\ cursor' = IF r.scanned = 0 THEN f.input
                            ELSE Append(f.input, r.scanned)
               /\ IF r.err
                    THEN Raise("simdjson_error", "decode")
                    ELSE IF r.found = 0
                      THEN Pop
                      ELSE /\ stack' = [stack EXCEPT ![Len(stack)] =
                                          Frame(Append(f.input, r.found),
                                                f.tokenIndex + 1)]
                           /\ UNCHANGED << pc, outcome, raised >>
  /\ steps' = steps + 1
  /\ UNCHANGED << inputs, extractorCache, recency, requests, tokens_, calls,
                  parsed, entered >>

\* one iteration of for (auto child : input.get_array()), or its end
WildcardStep ==
  /\ pc = "extract"
  /\ stack # <<>>
  /\ Last(stack).inLoop
  /\ LET f == Last(stack)
         n == NodeAt(json.root, f.input)
         next == f.child + 1
         cpos == Append(f.input, ChildAt(next, Len(n.kids)))
         advanced == [stack EXCEPT ![Len(stack)].child = next]
     IN IF next > Len(n.kids)
          THEN /\ IF n.trunc THEN Raise("simdjson_error", "decode") ELSE Pop
               /\ UNCHANGED << calls, cursor >>
          ELSE /\ cursor' = cpos
               /\ IF IsLastToken(f.tokenIndex, tokens_)
                    THEN /\ calls' = Append(calls, [arg |-> "value", pos |-> cpos])
                         /\ IF ConsumerThrows
                              THEN Raise(consThrowKind, "consumer")
                              ELSE /\ stack' = advanced
                                   /\ UNCHANGED << pc, outcome, raised >>
                    ELSE /\ stack' = Append(advanced,
                                            Frame(cpos, NextTokenIndex(f.tokenIndex)))
                         /\ UNCHANGED << pc, outcome, raised, calls >>
  /\ steps' = steps + 1
  /\ UNCHANGED << inputs, extractorCache, recency, requests, tokens_, parsed,
                  entered >>

\* consumer(input) after the token loop
ExtractConsume ==
  /\ pc = "extract"
  /\ stack # <<>>
  /\ ~Last(stack).inLoop
  /\ Last(stack).tokenIndex >= Len(tokens_)
  /\ calls' = Append(calls, [arg |-> "value", pos |-> Last(stack).input])
  /\ IF ConsumerThrows THEN Raise(consThrowKind, "consumer") ELSE Pop
  /\ steps' = steps + 1
  /\ UNCHANGED << inputs, extractorCache, recency, requests, tokens_, cursor,
                  parsed, entered >>

\* return true;
ReturnTrue ==
  /\ pc = "return"
  /\ pc' = "done"
  /\ outcome' = "true"
  /\ steps' = steps + 1
  /\ UNCHANGED << inputs, extractorCache, recency, requests, tokens_, stack,
                  calls, cursor, raised, parsed, entered >>

\* some statement of the call is ready to run
CanStep ==
  \/ pc \in { "start", "parse", "dispatch", "return" }
  \/ pc = "extract" /\ stack # <<>>

Next ==
  \/ GetInstance
  \/ Parse
  \/ RootOnly
  \/ GetValue
  \/ ExtractStep
  \/ WildcardStep
  \/ ExtractConsume
  \/ ReturnTrue

Spec == Init /\ [][Next]_vars

(***************************************************************************)
(* The extractor cache over a sequence of getInstance calls.               *)
(***************************************************************************)
\* the valid paths $[0], $[1], ... the cache specification requests
CachePath == [k \in 0..(kMaxCacheSize + ExtraPaths) |-> RenderPath(<< NatToToken(k) >>)]

CachedPaths == { extractorCache[i].path : i \in 1..Len(extractorCache) }

\* a valid path that is not cached
UncachedPath ==
  LET free == { k \in 0..(kMaxCacheSize + ExtraPaths) : CachePath[k] \notin CachedPaths }
  IN CachePath[CHOOSE k \in free : \A j \in free : k <= j]

InitCache ==
  /\ json = Doc(Scalar(0))
  /\ path = <<>>
  /\ consThrowAt = 0
  /\ consThrowKind = "simdjson_error"
  /\ extractorCache = <<>>
  /\ recency = <<>>
  /\ requests = [hit |-> 0, miss |-> 0, fail |-> 0]
  /\ tokens_ = <<>>
  /\ pc = "idle"
  /\ stack = <<>>
  /\ calls = <<>>
  /\ cursor = <<>>
  /\ outcome = "none"
  /\ raised = "none"
  /\ parsed = FALSE
  /\ entered = FALSE
  /\ steps = 0

\* one getInstance(p) made on behalf of some thread, under the cache's lock
CacheRequest(p) ==
  /\ pc = "idle"
  /\ GetInstanceEffect(p)
  /\ outcome' = IF getInstance(extractorCache, p).ok
                  THEN "none" ELSE CatchOutcome("VeloxUserError")
  /\ UNCHANGED << inputs, pc, stack, calls, cursor, raised, parsed, entered,
                  steps >>

RequestMiss ==
  /\ requests.miss < kMaxCacheSize + ExtraPaths
  /\ CacheRequest(UncachedPath)

RequestLeastRecent ==
  /\ requests.hit < MaxHits
  /\ extractorCache # <<>>
  /\ CacheRequest(Head(extractorCache).path)

RequestMostRecent ==
  /\ requests.hit < MaxHits
  /\ extractorCache # <<>>
  /\ CacheRequest(Last(extractorCache).path)

RequestMalformed ==
  /\ requests.fail < MaxFails
  /\ \E p \in MalformedPaths : CacheRequest(p)

NextCache ==
  \/ RequestMiss
  \/ RequestLeastRecent
  \/ RequestMostRecent
  \/ RequestMalformed

SpecCache == InitCache /\ [][NextCache]_vars

(***************************************************************************)
(* Reference semantics of a path over a well-formed document: the          *)
(* positions of the nodes a token list selects, in document order.         *)
(***************************************************************************)
RECURSIVE RefMatches(_, _, _)
RECURSIVE RefFanOut(_, _, _, _)
RefFanOut(n, pos, toks, i) ==
  IF i > Len(n.kids) THEN <<>>
  ELSE RefMatches(n.kids[i], Append(pos, i), toks) \o RefFanOut(n, pos, toks, i + 1)

RefMatches(n, pos, toks) ==
  IF toks = <<>> THEN << pos >>
  ELSE IF n.kind = "object"
    THEN IF \E i \in 1..Len(n.keys) : n.keys[i] = Head(toks)
           THEN LET k == CHOOSE i \in 1..Len(n.keys) :
                           /\ n.keys[i] = Head(toks)
                           /\ \A j \in 1..(i - 1) : n.keys[j] # Head(toks)
                IN RefMatches(n.kids[k], Append(pos, k), Tail(toks))
           ELSE <<>>
  ELSE IF n.kind = "array"
    THEN IF Head(toks) = kWildcard
           THEN RefFanOut(n, pos, Tail(toks), 1)
           ELSE IF IsNumericToken(Head(toks)) /\ TokenToInt(Head(toks)) < Len(n.kids)
             THEN LET k == TokenToInt(Head(toks)) + 1
                  IN RefMatches(n.kids[k], Append(pos, k), Tail(toks))
             ELSE <<>>
  ELSE <<>>

CallPositions == [i \in 1..Len(calls) |-> calls[i].pos]

Done == pc = "done"

ValidPath == tokenize(path).ok

PathTokens == tokenize(path).tokens

RootPath == << "$" >>

HasWildcard(toks) == \E i \in 1..Len(toks) : toks[i] = kWildcard

\* the nodes one token leads to from node n
TokenStep(n, tok) ==
  IF n.kind = "object"
    THEN LET r == extractObject(n, tok)
         IN IF r.found # 0 THEN { n.kids[r.found] } ELSE {}
  ELSE IF n.kind = "array"
    THEN IF tok = kWildcard THEN Range(n.kids)
         ELSE LET r == extractArray(n, tok)
              IN IF r.found # 0 THEN { n.kids[r.found] } ELSE {}
  ELSE {}

\* the length of the longest array a wildcard expands among nodes
FanOutFactor(nodes, tok) ==
  IF tok = kWildcard
    THEN Max({ Len(n.kids) : n \in { m \in nodes : m.kind = "array" } } \cup { 1 })
    ELSE 1

\* the product, over the wildcard tokens of toks, of the length of the
\* longest array the wildcard expands among the nodes reached at its level
RECURSIVE WildcardBound(_, _)
WildcardBound(nodes, toks) ==
  IF nodes = {} THEN 0
  ELSE IF toks = <<>> THEN 1
  ELSE FanOutFactor(nodes, Head(toks))
       * WildcardBound(UNION { TokenStep(n, Head(toks)) : n \in nodes }, Tail(toks))

RECURSIVE NodeCount(_)
RECURSIVE KidsCount(_, _)
KidsCount(n, i) ==
  IF i > Len(n.kids) THEN 0 ELSE NodeCount(n.kids[i]) + KidsCount(n, i + 1)

NodeCount(n) == 1 + KidsCount(n, 1)

\* the activation records nest: each is at work inside the element its
\* caller's wildcard loop currently holds
StackNests ==
  \A k \in 1..(Len(stack) - 1) :
    /\ stack[k].inLoop
    /\ stack[k].child >= 1
    /\ IsPrefix(Append(stack[k].input,
                        ChildAt(stack[k].child,
                                Len(NodeAt(json.root, stack[k].input).kids))),
                 stack[k + 1].input)

(***************************************************************************)
(* C1.  For every valid document (object, array or scalar root) and the    *)
(* path "$", the consumer is invoked exactly once, with the whole          *)
(* document, the token traversal is never entered, and the call returns    *)
(* true (a consumer that raises during that one invocation decides the     *)
(* outcome itself, see C6).                                                *)
(***************************************************************************)
C1_RootOnlyPath ==
  (path = RootPath /\ ~IsMalformed(json)) =>
    /\ ~entered
    /\ Len(calls) <= 1
    /\ Done =>
         /\ calls = << [arg |-> "document", pos |-> <<>>] >>
         /\ raised # "consumer" => outcome = "true"

C1_Witness ==
  /\ Done
  /\ path = RootPath
  /\ json = Doc(Scalar(7))
  /\ Len(calls) = 1
  /\ outcome = "true"

(***************************************************************************)
(* C2.  As stated: for every malformed document and every valid path       *)
(* the call returns false and the consumer has been invoked zero times.    *)
(***************************************************************************)
C2_MalformedNeverConsumed ==
  (Done /\ IsMalformed(json) /\ ValidPath /\ consThrowAt = 0) =>
    (outcome = "false" /\ calls = <<>>)

(***************************************************************************)
(* C2, amended.  For every document the parser rejects when the document   *)
(* is parsed, and every valid path, "$" included, the call returns false   *)
(* and the consumer has been invoked zero times.                           *)
(***************************************************************************)
C2_RejectedByParse ==
  (ValidPath /\ ~parse(json)) =>
    /\ calls = <<>>
    /\ ~entered
    /\ Done => (outcome = "false" /\ raised = "decode" /\ parsed)

C2_Witness ==
  /\ Done
  /\ path = RootPath
  /\ ~parse(json)
  /\ parsed
  /\ outcome = "false"
  /\ calls = <<>>

(***************************************************************************)
(* C3.  As stated: for every valid document, whatever the kind of its      *)
(* root, and every valid non-trivial path that matches no node, the call   *)
(* returns true with zero consumer invocations.                            *)
(***************************************************************************)
C3_NoMatchIsSuccess ==
  ( /\ Done
    /\ ~IsMalformed(json)
    /\ ValidPath
    /\ PathTokens # <<>>
    /\ RefMatches(json.root, <<>>, PathTokens) = <<>> ) =>
    (outcome = "true" /\ calls = <<>>)

(***************************************************************************)
(* C4.  A wildcard over an array processes the elements in array order:    *)
(* the consumer invocations of a call are the concatenation, in array      *)
(* order, of the matches of the remaining tokens in each element; an       *)
(* element without a match contributes nothing and no error.               *)
(***************************************************************************)
C4_WildcardInArrayOrder ==
  ( /\ Done
    /\ ~IsMalformed(json)
    /\ ValidPath
    /\ HasWildcard(PathTokens)
    /\ consThrowAt = 0 ) =>
    /\ CallPositions = RefMatches(json.root, <<>>, PathTokens)
    /\ \A i \in 1..Len(calls) : calls[i].arg = "value"
    /\ entered => (raised = "none" /\ outcome = "true")

C4_Witness ==
  /\ Done
  /\ path = RenderPath(<< ka, kWildcard, kx >>)
  /\ json = Doc(Obj(<<ka>>, << Arr(<< Obj(<<kx>>, <<Scalar(1)>>),
                                      Obj(<<ky>>, <<Scalar(2)>>),
                                      Obj(<<kx>>, <<Scalar(3)>>) >>) >>))
  /\ CallPositions = << <<1, 1, 1>>, <<1, 3, 1>> >>
  /\ outcome = "true"

(***************************************************************************)
(* C5.  A malformed path makes the call raise the invalid-path error to    *)
(* its caller: for every document, valid or malformed, the call returns    *)
(* neither true nor false, the document is never parsed and the consumer   *)
(* is invoked zero times.                                                  *)
(***************************************************************************)
C5_InvalidPathRaises ==
  ~ValidPath =>
    /\ outcome \notin { "true", "false" }
    /\ ~parsed
    /\ calls = <<>>
    /\ pc \in { "start", "done" }
    /\ Done => (outcome = "VeloxUserError" /\ raised = "path")

C5_Witness ==
  /\ Done
  /\ path = << "$", "[" >>
  /\ IsMalformed(json)
  /\ outcome = "VeloxUserError"

(***************************************************************************)
(* C6.  As stated: when the consumer raises, extraction stops with no      *)
(* further invocation and the caller sees the outcome of a document        *)
(* decode failure (false).                                                 *)
(***************************************************************************)
C6_AbortIsParseFailure ==
  raised = "consumer" =>
    (Done /\ Len(calls) = consThrowAt /\ outcome = "false")

(***************************************************************************)
(* C6, amended.  When the consumer raises, extraction stops with no        *)
(* further invocation; the caller sees false when what the consumer        *)
(* raised is a simdjson_error, and any other exception leaves              *)
(* simdJsonExtract as that exception.                                      *)
(***************************************************************************)
C6_AbortStopsExtraction ==
  /\ [](/\ consThrowAt > 0 => Len(calls) <= consThrowAt
        /\ raised = "consumer" =>
             /\ Done
             /\ stack = <<>>
             /\ Len(calls) = consThrowAt
             /\ outcome = (IF consThrowKind = "simdjson_error"
                             THEN "false" ELSE "other"))
  /\ [][raised # "consumer"]_vars

C6_Witness ==
  /\ raised = "consumer"
  /\ consThrowKind = "simdjson_error"
  /\ outcome = "false"
  /\ json = Doc(Arr(<< Arr(<<Scalar(1), Scalar(2)>>), Arr(<<Scalar(3)>>) >>))
  /\ path = RenderPath(<< kWildcard, kWildcard >>)
  /\ Len(calls) = 1

(***************************************************************************)
(* C7.  When a document decode error occurs in the middle of a traversal   *)
(* the invocations already made stand, none happens after the error, the   *)
(* call returns false, and the invocations made are a prefix of those      *)
(* the path produces on the document put right.                            *)
(***************************************************************************)
C7_DecodeErrorKeepsPrefix ==
  /\ [](raised = "decode" =>
          /\ Done
          /\ outcome = "false"
          /\ LET full == RefMatches(Repair(json.root), <<>>, tokens_)
             IN /\ Len(calls) <= Len(full)
                /\ CallPositions = SubSeq(full, 1, Len(calls)))
  /\ [][raised # "decode"]_vars

C7_Witness ==
  /\ raised = "decode"
  /\ entered
  /\ Len(calls) >= 1
  /\ outcome = "false"

C9_CursorForwardOnly ==
  /\ [](/\ StackNests
        /\ \A k \in 1..Len(stack) : DocLeq(stack[k].input, cursor)
        /\ \A i \in 1..Len(calls) : DocLeq(calls[i].pos, cursor)
        /\ \A i, j \in 1..Len(calls) :
             i < j => (DocLeq(calls[i].pos, calls[j].pos)
                       /\ calls[i].pos # calls[j].pos))
  /\ [][DocLeq(cursor, cursor')]_vars

C9_Witness ==
  /\ Len(stack) = 2
  /\ stack[1].child = 2
  /\ stack[2].inLoop
  /\ stack[2].child = 1
  /\ Len(calls) = 3

(***************************************************************************)
(* C10.  A path without a wildcard invokes the consumer at most once; in   *)
(* general the invocations number at most the product of the lengths of    *)
(* the arrays expanded along the wildcard chain, the recursion depth of    *)
(* extract never exceeds the number of tokens, the token index grows       *)
(* strictly with every loop iteration and every recursive call, and every  *)
(* traversal ends within a number of steps bounded by the document size.   *)
(***************************************************************************)
C10_BoundedTraversal ==
  /\ [](/\ (ValidPath /\ ~HasWildcard(PathTokens)) => Len(calls) <= 1
        /\ ValidPath => Len(calls) <= WildcardBound({ json.root }, PathTokens)
        /\ Len(stack) <= Len(tokens_)
        /\ \A k \in 1..Len(stack) : stack[k].tokenIndex <= Len(tokens_)
        /\ \A k \in 1..(Len(stack) - 1) :
             stack[k].tokenIndex < stack[k + 1].tokenIndex
        /\ steps <= 4 + 3 * NodeCount(json.root)
        /\ Done \/ CanStep)
  /\ [][ /\ steps' = steps + 1
         /\ (Len(stack') = Len(stack) /\ Len(stack) > 0
             /\ Last(stack').input # Last(stack).input) =>
              Last(stack').tokenIndex = Last(stack).tokenIndex + 1 ]_vars

C10_Witness ==
  /\ Done
  /\ json = Doc(Arr(<< Arr(<<Scalar(1), Scalar(2)>>), Arr(<<Scalar(3)>>) >>))
  /\ path = RenderPath(<< kWildcard, kWildcard >>)
  /\ Len(calls) = 3
  /\ outcome = "true"

====
